---- MODULE Spec2Model ----
(***************************************************************************)
(* BlueLogger: a leveled, colorized logger.  Two iterations of the same    *)
(* design are modelled side by side: src/log.go (TRACE=0..ERROR=4, no      *)
(* clamping, gated Error) and src/unnamed/part_000 (LevelError=0..         *)
(* LevelTrace=4, clamping SetLevel, ungated Error, formatted variants).    *)
(* The variable src says which of the two a behaviour runs.                *)
(*                                                                         *)
(* A byte is a one-character string; "ESC" stands for the byte 0x1B and    *)
(* "LF" for the newline.  A byte string is a sequence of bytes.            *)
(***************************************************************************)
EXTENDS Integers, Sequences, FiniteSets, TLC

(* ---------------------------- bounds ---------------------------------- *)
MaxCalls == 2
LevelSlack == 1

(* ------------------- level constants of the two files ------------------ *)
TRACE == 0
DEBUG == 1
INFO == 2
WARN == 3
ERROR == 4

LevelError == 0
LevelWarn == 1
LevelInfo == 2
LevelDebug == 3
LevelTrace == 4

Variants == {"log.go", "part_000"}

LevelNames == {"ERROR", "WARN", "INFO", "DEBUG", "TRACE"}

\* The numeric value each file gives to a level name (its const block).
LevelConst(v, name) ==
    IF v = "log.go"
    THEN CASE name = "TRACE" -> TRACE
           [] name = "DEBUG" -> DEBUG
           [] name = "INFO" -> INFO
           [] name = "WARN" -> WARN
           [] name = "ERROR" -> ERROR
    ELSE CASE name = "ERROR" -> LevelError
           [] name = "WARN" -> LevelWarn
           [] name = "INFO" -> LevelInfo
           [] name = "DEBUG" -> LevelDebug
           [] name = "TRACE" -> LevelTrace

ValidLevels(v) == {LevelConst(v, n) : n \in LevelNames}

\* Level arguments a caller may pass (Level / LogLevel is an int32): the
\* five valid values, one below them and one above them.
LevelArgs == {0 - LevelSlack} \cup (0..4) \cup {4 + LevelSlack}

\* Level arguments given to New: inside and above the valid range.
NewLevelArgs == {1, 4 + LevelSlack}

\* The level passed to write / writef when called directly (as the test does).
WriteLevelNames == {"ERROR"}

(* ---------------------------- byte strings ----------------------------- *)
DigitChars == <<"0", "1", "2", "3", "4", "5", "6", "7", "8", "9">>

(* ------------- acolor: the external colour collaborator ---------------- *)
\* SGR parameter numbers of the acolor package.
Bold == 1
Red == 31
Green == 32
Yellow == 33
Cyan == 36
White == 37
BlackHi == 90

RECURSIVE Dec(_)
\* decimal digits of a non-negative integer, no padding (strconv / %d)
Dec(n) == IF n < 10 THEN <<DigitChars[n + 1]>>
          ELSE Dec(n \div 10) \o <<DigitChars[(n % 10) + 1]>>

RECURSIVE JoinCodes(_)
JoinCodes(codes) ==
    IF Len(codes) = 1 THEN Dec(codes[1])
    ELSE Dec(codes[1]) \o <<";">> \o JoinCodes(Tail(codes))

\* acolor.Apply(codes...): ESC [ c1 ; c2 ... m
acolorApply(codes) == <<"ESC", "[">> \o JoinCodes(codes) \o <<"m">>

\* acolor.Clear(): ESC [ 0 m
acolorClear == <<"ESC", "[", "0", "m">>

(* ------------------------------- itoa ---------------------------------- *)
RECURSIVE itoaLoop(_, _, _, _)
\* the for loop of itoa: b is the 20-byte array (indexed 0..19 in the
\* code, 1..20 here), bp the code's index.  Returns the array and bp
\* after the final store b[bp] = '0' + i.
itoaLoop(b, bp, i, wid) ==
    IF i >= 10 \/ wid > 1
    THEN LET q == i \div 10
         IN itoaLoop([b EXCEPT ![bp + 1] = DigitChars[(i - q * 10) + 1]],
                     bp - 1, q, wid - 1)
    ELSE [b |-> [b EXCEPT ![bp + 1] = DigitChars[i + 1]], bp |-> bp]

\* itoa keeping only the last wid bytes of the array
itoaFixedWidth(buf, i, wid) ==
    LET b0 == [k \in 1..20 |-> "NUL"]
        r == itoaLoop(b0, 20 - 1, i, wid)
    IN buf \o SubSeq(r.b, 20 - wid + 1, 20)

itoa(buf, i, wid) ==
    LET b0 == [k \in 1..20 |-> "NUL"]
        r == itoaLoop(b0, 20 - 1, i, wid)
    IN buf \o SubSeq(r.b, r.bp + 1, 20)

(* --------------------------- header building --------------------------- *)
TagERROR == <<"[", "E", "R", "R", "O", "R", "]", " ">>
TagWARN == <<"[", "W", "A", "R", "N", "]", " ", " ">>
TagINFO == <<"[", "I", "N", "F", "O", "]", " ", " ">>
TagDEBUG == <<"[", "D", "E", "B", "U", "G", "]", " ">>
TagTRACE == <<"[", "T", "R", "A", "C", "E", "]", " ">>
TagNone == <<"[", "]", " ", " ", " ", " ", " ", " ">>

\* getHeaderLevel of src/log.go: the default branch is ERROR
getHeaderLevelLogGo(color, level) ==
    IF color
    THEN CASE level = INFO -> acolorApply(<<Bold, Green>>) \o TagINFO \o acolorClear
           [] level = WARN -> acolorApply(<<Bold, Yellow>>) \o TagWARN \o acolorClear
           [] level = TRACE -> acolorApply(<<Bold, White>>) \o TagTRACE \o acolorClear
           [] level = DEBUG -> acolorApply(<<Bold, Cyan>>) \o TagDEBUG \o acolorClear
           [] OTHER -> acolorApply(<<Bold, Red>>) \o TagERROR \o acolorClear
    ELSE CASE level = INFO -> TagINFO
           [] level = WARN -> TagWARN
           [] level = TRACE -> TagTRACE
           [] level = DEBUG -> TagDEBUG
           [] OTHER -> TagERROR

\* getHeaderLevel of src/unnamed/part_000: the default branch is "[]      "
getHeaderLevelPart000(color, level) ==
    IF color
    THEN CASE level = LevelInfo -> acolorApply(<<Bold, Green>>) \o TagINFO \o acolorClear
           [] level = LevelWarn -> acolorApply(<<Bold, Yellow>>) \o TagWARN \o acolorClear
           [] level = LevelTrace -> acolorApply(<<Bold, White>>) \o TagTRACE \o acolorClear
           [] level = LevelDebug -> acolorApply(<<Bold, Cyan>>) \o TagDEBUG \o acolorClear
           [] level = LevelError -> acolorApply(<<Bold, Red>>) \o TagERROR \o acolorClear
           [] OTHER -> acolorApply(<<Bold, White>>) \o TagNone \o acolorClear
    ELSE CASE level = LevelInfo -> TagINFO
           [] level = LevelWarn -> TagWARN
           [] level = LevelTrace -> TagTRACE
           [] level = LevelDebug -> TagDEBUG
           [] level = LevelError -> TagERROR
           [] OTHER -> TagNone

getHeaderLevel(v, color, level) ==
    IF v = "log.go" THEN getHeaderLevelLogGo(color, level)
    ELSE getHeaderLevelPart000(color, level)

\* the instant writeHeader formats: now.UTC() when l.UTC, else now
nowOf(fl, clock) == IF fl.UTC THEN clock.utc ELSE clock.loc

\* writeHeader step 1: the level tag
headerTag(v, buf, level, fl) ==
    IF fl.HeadLevel THEN buf \o getHeaderLevel(v, fl.Color, level) ELSE buf

\* writeHeader step 2: the header colour
headerColor(v, buf, level, fl) ==
    IF fl.Color
    THEN IF level = LevelConst(v, "ERROR")
         THEN buf \o acolorApply(<<Red>>)
         ELSE buf \o acolorApply(<<BlackHi>>)
    ELSE buf

\* the date written month first
headerDateMonthFirst(buf, fl, now) ==
    IF fl.HeadDate
    THEN itoa(itoa(itoa(buf, now.month, 2) \o <<".">>, now.day, 2) \o <<".">>,
              now.year, 4) \o <<" ">>
    ELSE buf

\* writeHeader step 3a: the date
headerDate(buf, fl, now) ==
    IF fl.HeadDate
    THEN itoa(itoa(itoa(buf, now.day, 2) \o <<".">>, now.month, 2) \o <<".">>,
              now.year, 4) \o <<" ">>
    ELSE buf

\* writeHeader step 3b: the time
headerTime(buf, fl, now) ==
    IF fl.HeadTime
    THEN LET hms == itoa(itoa(itoa(buf, now.hour, 2) \o <<":">>, now.min, 2) \o <<":">>,
                         now.sec, 2)
             mc == IF fl.HeadMC THEN itoa(hms \o <<".">>, now.nsec \div 1000, 6)
                   ELSE hms
         IN mc \o <<" ">>
    ELSE buf

\* writeHeader step 3: date and time
headerStamp(buf, fl, clock) ==
    IF fl.HeadDate \/ fl.HeadTime
    THEN headerTime(headerDate(buf, fl, nowOf(fl, clock)), fl, nowOf(fl, clock))
    ELSE buf

\* writeHeader: end of header; drops the last byte and appends ": "
headerEnd(buf, fl) ==
    LET length == Len(buf)
    IN IF length = 0 THEN buf
       ELSE IF fl.Color
            THEN SubSeq(buf, 1, length - 1) \o <<":", " ">> \o acolorClear
            ELSE SubSeq(buf, 1, length - 1) \o <<":", " ">>

\* the buffer before the end-of-header step
headerRaw(v, buf, level, fl, clock) ==
    headerStamp(headerColor(v, headerTag(v, buf, level, fl), level, fl), fl, clock)

writeHeader(v, buf, level, fl, clock) ==
    headerEnd(headerRaw(v, buf, level, fl, clock), fl)

(* ------------------------- fmt.Sprint / Sprintf ------------------------ *)
\* An operand is a string or an int: [k |-> "s", s |-> bytes, n |-> 0] or
\* [k |-> "i", s |-> <<>>, n |-> value].
StrVal(bytes) == [k |-> "s", s |-> bytes, n |-> 0]
IntVal(n) == [k |-> "i", s |-> <<>>, n |-> n]

\* default (%v) rendering of one operand
fmtValue(a) == IF a.k = "s" THEN a.s ELSE Dec(a.n)

\* the "type=value" text fmt prints for a bad verb or an extra operand
fmtTypeValue(a) ==
    IF a.k = "s" THEN <<"s", "t", "r", "i", "n", "g", "=">> \o a.s
    ELSE <<"i", "n", "t", "=">> \o Dec(a.n)

RECURSIVE SprintFrom(_, _)
\* fmt.Sprint: operands in order; a space is added between two operands
\* when neither is a string.
SprintFrom(v, argNum) ==
    IF argNum > Len(v) THEN <<>>
    ELSE (IF argNum > 1 /\ v[argNum].k # "s" /\ v[argNum - 1].k # "s"
          THEN <<" ">> ELSE <<>>)
         \o fmtValue(v[argNum]) \o SprintFrom(v, argNum + 1)

Sprint(v) == SprintFrom(v, 1)

\* one verb applied to one operand
fmtVerb(c, a) ==
    CASE c = "v" -> fmtValue(a)
      [] c = "s" /\ a.k = "s" -> a.s
      [] c = "d" /\ a.k = "i" -> Dec(a.n)
      [] OTHER -> <<"%", "!", c, "(">> \o fmtTypeValue(a) \o <<")">>

RECURSIVE fmtExtra(_, _)
fmtExtra(v, argNum) ==
    IF argNum > Len(v) THEN <<>>
    ELSE fmtTypeValue(v[argNum])
         \o (IF argNum < Len(v) THEN <<",", " ">> ELSE <<>>)
         \o fmtExtra(v, argNum + 1)

RECURSIVE SprintfFrom(_, _, _, _)
\* fmt.Sprintf: scan the format; a verb consumes the next operand.
SprintfFrom(format, pos, v, argNum) ==
    IF pos > Len(format)
    THEN IF argNum <= Len(v)
         THEN <<"%", "!", "(", "E", "X", "T", "R", "A", " ">>
              \o fmtExtra(v, argNum) \o <<")">>
         ELSE <<>>
    ELSE IF format[pos] # "%"
    THEN <<format[pos]>> \o SprintfFrom(format, pos + 1, v, argNum)
    ELSE IF pos = Len(format)
    THEN <<"%", "!", "(", "N", "O", "V", "E", "R", "B", ")">>
         \o SprintfFrom(format, pos + 1, v, argNum)
    ELSE IF format[pos + 1] = "%"
    THEN <<"%">> \o SprintfFrom(format, pos + 2, v, argNum)
    ELSE IF argNum > Len(v)
    THEN <<"%", "!", format[pos + 1], "(", "M", "I", "S", "S", "I", "N", "G", ")">>
         \o SprintfFrom(format, pos + 2, v, argNum)
    ELSE fmtVerb(format[pos + 1], v[argNum])
         \o SprintfFrom(format, pos + 2, v, argNum + 1)

Sprintf(format, v) == SprintfFrom(format, 1, v, 1)

\* The message of one call: plain (Sprint) or formatted (Sprintf).
Render(m) == IF m.f THEN Sprintf(m.format, m.v) ELSE Sprint(m.v)

(* ------------------------------ write body ----------------------------- *)
\* write / writef: l.buf = l.buf[:0]
bufReset(buf) == SubSeq(buf, 1, 0)

\* write / writef: the header, only when l.Head
bufHeader(v, buf, level, fl, clock) ==
    IF fl.Head THEN writeHeader(v, buf, level, fl, clock) ELSE buf

\* write / writef: the body and the newline
bufBody(v, buf, level, fl, m) ==
    IF fl.Color /\ level = LevelConst(v, "ERROR")
    THEN buf \o acolorApply(<<Red>>) \o Render(m) \o acolorClear \o <<"LF">>
    ELSE buf \o Render(m) \o <<"LF">>

\* writef appending the formatted body without the red wrapping
bufBodyfNoRed(v, buf, level, fl, m) == buf \o Sprintf(m.format, m.v) \o <<"LF">>

\* writef (part_000): the body rendered by fmt.Sprintf, and the newline
bufBodyf(v, buf, level, fl, m) ==
    IF fl.Color /\ level = LevelConst(v, "ERROR")
    THEN buf \o acolorApply(<<Red>>) \o Sprintf(m.format, m.v) \o acolorClear \o <<"LF">>
    ELSE buf \o Sprintf(m.format, m.v) \o <<"LF">>

\* the whole buffer one write builds, starting from whatever buf held
writeBuf(v, buf, level, fl, clock, m) ==
    bufBody(v, bufHeader(v, bufReset(buf), level, fl, clock), level, fl, m)

(* ------------------------- level gating (pure) -------------------------- *)
\* IsLevel with a strict comparison
isLevelValueStrict(v, lv, L) == IF v = "log.go" THEN L > lv ELSE lv > L

\* Logger.IsLevel: "level >= l.level" in log.go, "l.level >= level" in part_000
isLevelValue(v, lv, L) == IF v = "log.go" THEN L >= lv ELSE lv >= L

\* the early return taken also when the level equals the threshold
emitGateStrict(v, lv, L) == IF v = "log.go" THEN ~(L <= lv) ELSE ~(lv <= L)

\* the early return of Warn/Info/Debug/Trace (and the ...f variants):
\* "if WARN < l.level { return }" in log.go, "if l.level < LevelWarn { return }"
\* in part_000.  TRUE when the call goes on to write.
emitGate(v, lv, L) == IF v = "log.go" THEN ~(L < lv) ELSE ~(lv < L)

\* the early return of Warnf/Infof/Debugf/Tracef (part_000):
\* "if l.level < LevelWarn { return }".  TRUE when the call goes on to writef.
emitGatef(v, lv, L) == ~(lv < L)

\* Logger.Error: gated by "if ERROR < l.level { return }" in log.go only
errorGate(v, lv) == IF v = "log.go" THEN ~(ERROR < lv) ELSE TRUE

\* SetLevel without the upper clamp of part_000
setLevelValueNoUpper(v, x) ==
    IF v = "log.go" THEN x
    ELSE IF x < LevelError THEN LevelError ELSE x

\* the value SetLevel stores: as given in log.go, clamped in part_000
setLevelValue(v, x) ==
    IF v = "log.go" THEN x
    ELSE IF x < LevelError THEN LevelError
         ELSE IF x > LevelTrace THEN LevelTrace
         ELSE x

\* the value New stores in l.level: the argument, in both files
newLevelValue(v, x) == x

\* the flag values New sets
NewFlags == [Color |-> TRUE, UTC |-> TRUE, Head |-> TRUE, HeadLevel |-> TRUE,
             HeadDate |-> TRUE, HeadTime |-> TRUE, HeadMC |-> FALSE]

AllFlags == [Color : BOOLEAN, UTC : BOOLEAN, Head : BOOLEAN, HeadLevel : BOOLEAN,
             HeadDate : BOOLEAN, HeadTime : BOOLEAN, HeadMC : BOOLEAN]

(* ----------------------------- input sets ------------------------------ *)
Threads == {1, 2}
Sinks == {"w1", "w2"}
Errs == {"nil", "EIO"}

\* readings of time.Now(): the local instant and the same instant in UTC
Clock1 == [loc |-> [year |-> 2024, month |-> 3, day |-> 5, hour |-> 10, min |-> 8,
                    sec |-> 9, nsec |-> 1234567],
           utc |-> [year |-> 2024, month |-> 3, day |-> 5, hour |-> 7, min |-> 8,
                    sec |-> 9, nsec |-> 1234567]]
Clock2 == [loc |-> [year |-> 10000, month |-> 1, day |-> 1, hour |-> 1, min |-> 0,
                    sec |-> 0, nsec |-> 999999999],
           utc |-> [year |-> 9999, month |-> 12, day |-> 31, hour |-> 22, min |-> 0,
                    sec |-> 0, nsec |-> 999999999]]
Clocks == {Clock1, Clock2}

\* values and widths handed to itoa: day, month, year, hour, minute, second
\* and microsecond values, and values with more digits than any width
ItoaValues == {0, 7, 9, 10, 31, 59, 99, 100, 2024, 9999, 10000, 12345, 999999,
               1000000, 2147483647}
ItoaWidths == 1..6

\* the reading time.Now() gives while the threads of the concurrent model run
RunClocks == {Clock1}

\* the operands each thread logs: thread t passes its own values, so that
\* two threads' lines differ
MsgA == [f |-> FALSE, format |-> <<>>, v |-> <<StrVal(<<"a">>)>>]
MsgB == [f |-> FALSE, format |-> <<>>, v |-> <<IntVal(1), IntVal(2)>>]
FmtA == [f |-> TRUE, format |-> <<"n", "=", "%", "d">>, v |-> <<IntVal(7)>>]
FmtB == [f |-> TRUE, format |-> <<"%", "s", "!">>, v |-> <<StrVal(<<"b">>)>>]
PlainMsgs(t) == IF t % 2 = 1 THEN {MsgA} ELSE {MsgB}
FmtMsgs(t) == IF t % 2 = 1 THEN {FmtA} ELSE {FmtB}

\* the flag settings the owning code chooses in the concurrent model
FlagConfigs == { NewFlags,
                 [NewFlags EXCEPT !.Color = FALSE, !.HeadDate = FALSE, !.HeadTime = FALSE] }

(* -------------------------------- state -------------------------------- *)
VARIABLES
    src,      \* which file runs: "log.go" or "part_000"
    level,    \* l.level
    out,      \* l.out
    flags,    \* Color, UTC, Head, HeadLevel, HeadDate, HeadTime, HeadMC
    mu,       \* l.mu: 0 when free, else the thread holding it
    buf,      \* l.buf
    wcount,   \* per sink: number of Write calls it has received
    pc,       \* per thread: position in its current call
    cur,      \* per thread: the frame of its current call
    calls,    \* number of calls started so far
    winv,     \* number of write / writef invocations started so far
    lastSet,  \* the argument of the latest SetLevel that has run, if any
    exited,   \* os.Exit(1) has been called
    pure,     \* last application of a pure function (second specification)
    other     \* a second Logger instance and the one goroutine that uses it

vars == <<src, level, out, flags, mu, buf, wcount, pc, cur, calls, winv, lastSet,
          exited, pure, other>>

NoCall == [op |-> "none", lvl |-> 0, m |-> [f |-> FALSE, format |-> <<>>, v |-> <<>>],
           x |-> 0, w |-> "w1", seen |-> <<>>, clock |-> <<>>, atLock |-> <<>>,
           wto |-> <<>>, wbytes |-> <<>>, nw |-> 0, err |-> "nil", ret |-> <<>>]

NoPure == [f |-> "none"]

\* New(out, level) for the second instance: its own mutex and level
NewOther == [pc |-> "idle", mu |-> 0, level |-> 1]

\* New(out, level): the state after construction
Init ==
    /\ src \in Variants
    /\ level \in {newLevelValue(src, x) : x \in NewLevelArgs}
    /\ out = "w1"
    /\ flags = NewFlags
    /\ mu = 0
    /\ buf = <<>>
    /\ wcount = [w \in Sinks |-> 0]
    /\ pc = [t \in Threads |-> "idle"]
    /\ cur = [t \in Threads |-> NoCall]
    /\ calls = 0
    /\ winv = 0
    /\ lastSet = <<>>
    /\ exited = FALSE
    /\ pure = NoPure
    /\ other = NewOther

(* ------------------------ owner sets the flags -------------------------- *)
\* The exported fields are assigned directly by the owning code, before
\* the logger is put to use.
Configure(fl) ==
    /\ ~exited
    /\ calls = 0
    /\ flags # fl
    /\ flags' = fl
    /\ UNCHANGED <<src, level, out, mu, buf, wcount, pc, cur, calls, winv, lastSet, exited, pure, other>>

(* ------------------------- kinds of operation -------------------------- *)
AccessorOps == {"Level", "SetLevel", "Output", "SetOutput"}
ExitOps == {"Error", "Errorf"}
WriteOps == {"write", "writef"}
GatedOps == {"Warn", "Info", "Debug", "Trace", "Warnf", "Infof", "Debugf", "Tracef"}
FormatOps == {"writef", "Errorf", "Warnf", "Infof", "Debugf", "Tracef"}

(* ----------------------------- call entry ------------------------------ *)
\* a thread may start a call
CanCall(t) == ~exited /\ pc[t] = "idle" /\ calls < MaxCalls

\* the frame of a new call
Frame(op, lvl, m, x, w) ==
    [NoCall EXCEPT !.op = op, !.lvl = lvl, !.m = m, !.x = x, !.w = w]

Enter(t, frame, to) ==
    /\ cur' = [cur EXCEPT ![t] = frame]
    /\ pc' = [pc EXCEPT ![t] = to]
    /\ calls' = calls + 1
    /\ winv' = IF to = "lock" /\ frame.op \notin AccessorOps THEN winv + 1 ELSE winv
    /\ UNCHANGED <<src, level, out, flags, mu, buf, wcount, lastSet, exited, pure, other>>

\* Logger.Level, SetLevel, Output, SetOutput: all start by taking l.mu
Level(t) == CanCall(t) /\ Enter(t, Frame("Level", 0, NoCall.m, 0, "w1"), "lock")

SetLevel(t, x) == CanCall(t) /\ Enter(t, Frame("SetLevel", 0, NoCall.m, x, "w1"), "lock")

Output(t) == CanCall(t) /\ Enter(t, Frame("Output", 0, NoCall.m, 0, "w1"), "lock")

\* SetOutput assigning l.out without taking l.mu
SetOutputNoLock(t, w) == CanCall(t) /\ Enter(t, Frame("SetOutput", 0, NoCall.m, 0, w), "acc")

SetOutput(t, w) == CanCall(t) /\ Enter(t, Frame("SetOutput", 0, NoCall.m, 0, w), "lock")

\* Logger.IsLevel: one unlocked read of l.level and a comparison
IsLevelCall(t, op, L) ==
    /\ CanCall(t)
    /\ Enter(t, [Frame(op, 0, NoCall.m, L, "w1") EXCEPT
                    !.seen = <<level>>, !.ret = <<isLevelValue(src, level, L)>>],
             "ret")

IsLevel(t, L) == IsLevelCall(t, "IsLevel", L)
IsError(t) == IsLevelCall(t, "IsError", LevelConst(src, "ERROR"))
IsWarn(t) == IsLevelCall(t, "IsWarn", LevelConst(src, "WARN"))
IsInfo(t) == IsLevelCall(t, "IsInfo", LevelConst(src, "INFO"))
IsDebug(t) == IsLevelCall(t, "IsDebug", LevelConst(src, "DEBUG"))
IsTrace(t) == IsLevelCall(t, "IsTrace", LevelConst(src, "TRACE"))

\* Warn/Info/Debug/Trace and their ...f variants: read l.level without the
\* mutex, return at once when the level is off, else go on to write/writef
Emit(t, op, name, m) ==
    /\ CanCall(t)
    /\ Enter(t, [Frame(op, LevelConst(src, name), m, 0, "w1") EXCEPT !.seen = <<level>>],
             IF emitGate(src, level, LevelConst(src, name)) THEN "lock" ELSE "ret")

Warn(t, m) == Emit(t, "Warn", "WARN", m)
Info(t, m) == Emit(t, "Info", "INFO", m)
Debug(t, m) == Emit(t, "Debug", "DEBUG", m)
Trace(t, m) == Emit(t, "Trace", "TRACE", m)

\* Warnf/Infof/Debugf/Tracef (part_000): the same shape, ending in writef
Emitf(t, op, name, m) ==
    /\ src = "part_000"
    /\ CanCall(t)
    /\ Enter(t, [Frame(op, LevelConst(src, name), m, 0, "w1") EXCEPT !.seen = <<level>>],
             IF emitGatef(src, level, LevelConst(src, name)) THEN "lock" ELSE "ret")

Warnf(t, m) == Emitf(t, "Warnf", "WARN", m)
Infof(t, m) == Emitf(t, "Infof", "INFO", m)
Debugf(t, m) == Emitf(t, "Debugf", "DEBUG", m)
Tracef(t, m) == Emitf(t, "Tracef", "TRACE", m)

\* Logger.Error / Errorf: gated in log.go only; write, then os.Exit(1)
ErrorCall(t, op, m) ==
    /\ CanCall(t)
    /\ Enter(t, [Frame(op, LevelConst(src, "ERROR"), m, 0, "w1") EXCEPT !.seen = <<level>>],
             IF errorGate(src, level) THEN "lock" ELSE "ret")

Error(t, m) == ErrorCall(t, "Error", m)
Errorf(t, m) == src = "part_000" /\ ErrorCall(t, "Errorf", m)

\* Logger.write / writef called directly (as the package's test does)
write(t, lvl, m) == CanCall(t) /\ Enter(t, Frame("write", lvl, m, 0, "w1"), "lock")

writef(t, lvl, m) ==
    src = "part_000" /\ CanCall(t) /\ Enter(t, Frame("writef", lvl, m, 0, "w1"), "lock")

(* ------------------------------ the steps ------------------------------ *)
\* a Lock that never waits
MuFreeAlways(t) == TRUE

\* l.mu.Lock() may proceed
MuFree(t) == mu = 0

\* l.mu.Lock()
muLock(t) ==
    /\ ~exited
    /\ pc[t] = "lock"
    /\ MuFree(t)
    /\ mu' = t
    /\ cur' = [cur EXCEPT ![t].atLock = <<[out |-> out, level |-> level, flags |-> flags]>>]
    /\ pc' = [pc EXCEPT ![t] = IF cur[t].op \in AccessorOps THEN "acc" ELSE "reset"]
    /\ UNCHANGED <<src, level, out, flags, buf, wcount, calls, winv, lastSet, exited, pure, other>>

\* write: l.buf = l.buf[:0]
writeReset(t) ==
    /\ ~exited
    /\ pc[t] = "reset"
    /\ buf' = bufReset(buf)
    /\ pc' = [pc EXCEPT ![t] = "header"]
    /\ UNCHANGED <<src, level, out, flags, mu, wcount, cur, calls, winv, lastSet, exited, pure, other>>

\* write: if l.Head { l.writeHeader(&l.buf, level) }
writeHead(t) ==
    /\ ~exited
    /\ pc[t] = "header"
    /\ \E clock \in RunClocks :
         /\ buf' = bufHeader(src, buf, cur[t].lvl, flags, clock)
         /\ cur' = [cur EXCEPT ![t].clock = <<clock>>]
    /\ pc' = [pc EXCEPT ![t] = "body"]
    /\ UNCHANGED <<src, level, out, flags, mu, wcount, calls, winv, lastSet, exited, pure, other>>

\* write / writef: append the body and the newline
writeBody(t) ==
    /\ ~exited
    /\ pc[t] = "body"
    /\ buf' = IF cur[t].op \in FormatOps
              THEN bufBodyf(src, buf, cur[t].lvl, flags, cur[t].m)
              ELSE bufBody(src, buf, cur[t].lvl, flags, cur[t].m)
    /\ pc' = [pc EXCEPT ![t] = "out"]
    /\ UNCHANGED <<src, level, out, flags, mu, wcount, cur, calls, winv, lastSet, exited, pure, other>>

\* write: the call l.out.Write(l.buf) is made
outWrite(t) ==
    /\ ~exited
    /\ pc[t] = "out"
    /\ cur' = [cur EXCEPT ![t].wto = <<out>>, ![t].wbytes = <<buf>>,
                          ![t].nw = cur[t].nw + 1]
    /\ wcount' = [wcount EXCEPT ![out] = wcount[out] + 1]
    /\ pc' = [pc EXCEPT ![t] = "inWrite"]
    /\ UNCHANGED <<src, level, out, flags, mu, buf, calls, winv, lastSet, exited, pure, other>>

\* write: the sink's Write returns, with or without an error
outWriteReturn(t) ==
    /\ ~exited
    /\ pc[t] = "inWrite"
    /\ \E e \in Errs : cur' = [cur EXCEPT ![t].err = e]
    /\ pc' = [pc EXCEPT ![t] = "unlock"]
    /\ UNCHANGED <<src, level, out, flags, mu, buf, wcount, calls, winv, lastSet, exited, pure, other>>

\* the body of Level / SetLevel / Output / SetOutput, under the mutex
accessor(t) ==
    /\ ~exited
    /\ pc[t] = "acc"
    /\ level' = IF cur[t].op = "SetLevel" THEN setLevelValue(src, cur[t].x) ELSE level
    /\ out' = IF cur[t].op = "SetOutput" THEN cur[t].w ELSE out
    /\ cur' = [cur EXCEPT ![t].ret = CASE cur[t].op = "Level" -> <<level>>
                                       [] cur[t].op = "Output" -> <<out>>
                                       [] OTHER -> <<>>]
    /\ pc' = [pc EXCEPT ![t] = "unlock"]
    /\ lastSet' = IF cur[t].op = "SetLevel" THEN <<cur[t].x>> ELSE lastSet
    /\ UNCHANGED <<src, flags, mu, buf, wcount, calls, winv, exited, pure, other>>

\* write / writef returning nil whatever the sink said
returnedNil(op, err) == IF op \in WriteOps THEN <<"nil">> ELSE <<>>

\* the value a call hands back once write has returned: write and writef
\* return err, the emit methods drop it
returned(op, err) == IF op \in WriteOps THEN <<err>> ELSE <<>>

\* an Unlock that is skipped when the sink reported an error
muUnlockKeepOnError(t) ==
    /\ ~exited
    /\ pc[t] = "unlock"
    /\ mu' = IF cur[t].err # "nil" THEN mu ELSE 0
    /\ IF cur[t].op \in AccessorOps
       THEN cur' = cur
       ELSE cur' = [cur EXCEPT ![t].ret = returned(cur[t].op, cur[t].err)]
    /\ pc' = [pc EXCEPT ![t] = IF cur[t].op \in ExitOps THEN "exit" ELSE "ret"]
    /\ UNCHANGED <<src, level, out, flags, buf, wcount, calls, winv, lastSet, exited, pure, other>>

\* defer l.mu.Unlock(), then the return to the caller
muUnlock(t) ==
    /\ ~exited
    /\ pc[t] = "unlock"
    /\ mu' = 0
    /\ IF cur[t].op \in AccessorOps
       THEN cur' = cur
       ELSE cur' = [cur EXCEPT ![t].ret = returned(cur[t].op, cur[t].err)]
    /\ pc' = [pc EXCEPT ![t] = IF cur[t].op \in ExitOps THEN "exit" ELSE "ret"]
    /\ UNCHANGED <<src, level, out, flags, buf, wcount, calls, winv, lastSet, exited, pure, other>>

\* the caller has the result; the frame is gone
Return(t) ==
    /\ ~exited
    /\ pc[t] = "ret"
    /\ pc' = [pc EXCEPT ![t] = "idle"]
    /\ cur' = [cur EXCEPT ![t] = NoCall]
    /\ UNCHANGED <<src, level, out, flags, mu, buf, wcount, calls, winv, lastSet, exited, pure, other>>

\* Error / Errorf: os.Exit(1)
osExit(t) ==
    /\ ~exited
    /\ pc[t] = "exit"
    /\ exited' = TRUE
    /\ UNCHANGED <<src, level, out, flags, mu, buf, wcount, pc, cur, calls, winv, lastSet, pure, other>>

Next ==
    \/ \E fl \in FlagConfigs : Configure(fl)
    \/ \E t \in Threads : Level(t)
    \/ \E t \in Threads, x \in LevelArgs : SetLevel(t, x)
    \/ \E t \in Threads : Output(t)
    \/ \E t \in Threads, w \in Sinks : SetOutput(t, w)
    \/ \E t \in Threads, n \in LevelNames : IsLevel(t, LevelConst(src, n))
    \/ \E t \in Threads : IsError(t)
    \/ \E t \in Threads : IsWarn(t)
    \/ \E t \in Threads : IsInfo(t)
    \/ \E t \in Threads : IsDebug(t)
    \/ \E t \in Threads : IsTrace(t)
    \/ \E t \in Threads : \E m \in PlainMsgs(t) : Error(t, m)
    \/ \E t \in Threads : \E m \in PlainMsgs(t) : Warn(t, m)
    \/ \E t \in Threads : \E m \in PlainMsgs(t) : Info(t, m)
    \/ \E t \in Threads : \E m \in PlainMsgs(t) : Debug(t, m)
    \/ \E t \in Threads : \E m \in PlainMsgs(t) : Trace(t, m)
    \/ \E t \in Threads : \E m \in FmtMsgs(t) : Errorf(t, m)
    \/ \E t \in Threads : \E m \in FmtMsgs(t) : Warnf(t, m)
    \/ \E t \in Threads : \E m \in FmtMsgs(t) : Infof(t, m)
    \/ \E t \in Threads : \E m \in FmtMsgs(t) : Debugf(t, m)
    \/ \E t \in Threads : \E m \in FmtMsgs(t) : Tracef(t, m)
    \/ \E t \in Threads, n \in WriteLevelNames : \E m \in PlainMsgs(t) : write(t, LevelConst(src, n), m)
    \/ \E t \in Threads, n \in WriteLevelNames : \E m \in FmtMsgs(t) : writef(t, LevelConst(src, n), m)
    \/ \E t \in Threads : muLock(t)
    \/ \E t \in Threads : writeReset(t)
    \/ \E t \in Threads : writeHead(t)
    \/ \E t \in Threads : writeBody(t)
    \/ \E t \in Threads : outWrite(t)
    \/ \E t \in Threads : outWriteReturn(t)
    \/ \E t \in Threads : accessor(t)
    \/ \E t \in Threads : muUnlock(t)
    \/ \E t \in Threads : Return(t)
    \/ \E t \in Threads : osExit(t)

Spec == Init /\ [][Next]_vars

TypeOK ==
    /\ src \in Variants
    /\ level \in LevelArgs
    /\ out \in Sinks
    /\ flags \in AllFlags
    /\ mu \in {0} \cup Threads
    /\ calls \in 0..MaxCalls
    /\ exited \in BOOLEAN

(* ------ third specification: two Logger instances, fair scheduling ------ *)
\* The second instance has its own mutex; one goroutine calls SetLevel on
\* it once.  x is the level it passes.
OtherLevelArg == WARN

OtherVars == <<src, level, out, flags, mu, buf, wcount, pc, cur, calls, winv, lastSet,
               exited, pure>>

\* SetLevel on the second instance: the call starts
SetLevelOther ==
    /\ ~exited /\ other.pc = "idle"
    /\ other' = [other EXCEPT !.pc = "lock"]
    /\ UNCHANGED OtherVars

\* l.mu.Lock() of the second instance
muLockOther ==
    /\ ~exited /\ other.pc = "lock" /\ other.mu = 0
    /\ other' = [other EXCEPT !.pc = "acc", !.mu = 1]
    /\ UNCHANGED OtherVars

\* l.level = level on the second instance
accessorOther ==
    /\ ~exited /\ other.pc = "acc"
    /\ other' = [other EXCEPT !.pc = "unlock", !.level = setLevelValue(src, OtherLevelArg)]
    /\ UNCHANGED OtherVars

\* defer l.mu.Unlock() of the second instance, and the return
muUnlockOther ==
    /\ ~exited /\ other.pc = "unlock"
    /\ other' = [other EXCEPT !.pc = "done", !.mu = 0]
    /\ UNCHANGED OtherVars

\* this specification runs src/log.go; the levels SetLevel is given, the
\* sinks SetOutput is given and the level New was given
LiveVariant == "log.go"
LiveLevelArgs == {WARN}
LiveSinks == {"w2"}
LiveNewLevel == DEBUG

InitLive == Init /\ src = LiveVariant /\ level = newLevelValue(src, LiveNewLevel)

\* every step of a call of thread t except the return of the sink's Write
step(t) ==
    \/ muLock(t) \/ writeReset(t) \/ writeHead(t) \/ writeBody(t) \/ outWrite(t)
    \/ accessor(t) \/ muUnlock(t) \/ Return(t) \/ osExit(t)

\* the steps of the goroutine that uses the second instance
stepOther == muLockOther \/ accessorOther \/ muUnlockOther

NextLive ==
    \/ \E t \in Threads : Level(t)
    \/ \E t \in Threads, x \in LiveLevelArgs : SetLevel(t, x)
    \/ \E t \in Threads : Output(t)
    \/ \E t \in Threads, w \in LiveSinks : SetOutput(t, w)
    \/ \E t \in Threads : \E m \in PlainMsgs(t) : Error(t, m)
    \/ \E t \in Threads : \E m \in PlainMsgs(t) : Warn(t, m)
    \/ \E t \in Threads : \E m \in PlainMsgs(t) : Info(t, m)
    \/ \E t \in Threads : \E m \in PlainMsgs(t) : Debug(t, m)
    \/ \E t \in Threads : \E m \in PlainMsgs(t) : Trace(t, m)
    \/ \E t \in Threads, n \in WriteLevelNames : \E m \in PlainMsgs(t) : write(t, LevelConst(src, n), m)
    \/ \E t \in Threads : step(t)
    \/ \E t \in Threads : outWriteReturn(t)
    \/ SetLevelOther
    \/ stepOther

\* Goroutines that can take a step are scheduled; whether a sink's Write
\* returns is up to the sink and is not assumed here.
Fairness == (\A t \in Threads : WF_vars(step(t))) /\ WF_vars(stepOther)

SpecLive == InitLive /\ [][NextLive]_vars /\ Fairness

(* ------------- second specification: write as a pure function --------- *)
\* One application of write to a logger whose fields and scratch buffer
\* are drawn from bounded sets; the result is recorded in pure.
pureWrite ==
    /\ pure.f = "none"
    /\ \E fl \in AllFlags, n \in LevelNames, clock \in Clocks, m \in {MsgA, FmtB},
          old \in {<<>>, <<"o", "l", "d", " ">>} :
        /\ pure' = [f |-> "write", fl |-> fl, lvl |-> LevelConst(src, n), name |-> n,
                    clock |-> clock, m |-> m, old |-> old,
                    raw |-> IF fl.Head
                            THEN headerRaw(src, bufReset(old), LevelConst(src, n), fl, clock)
                            ELSE bufReset(old),
                    header |-> bufHeader(src, bufReset(old), LevelConst(src, n), fl, clock),
                    line |-> writeBuf(src, old, LevelConst(src, n), fl, clock, m)]
        /\ UNCHANGED <<src, level, out, flags, mu, buf, wcount, pc, cur, calls, winv,
                       lastSet, exited, other>>

\* One application of itoa to a buffer that may already hold bytes.
pureItoa ==
    /\ pure.f = "none"
    /\ \E i \in ItoaValues, wid \in ItoaWidths, old \in {<<>>, <<"o", "l", "d", " ">>} :
        /\ pure' = [f |-> "itoa", i |-> i, wid |-> wid, old |-> old,
                    bp |-> itoaLoop([k \in 1..20 |-> "NUL"], 20 - 1, i, wid).bp,
                    out |-> itoa(old, i, wid)]
        /\ UNCHANGED <<src, level, out, flags, mu, buf, wcount, pc, cur, calls, winv,
                       lastSet, exited, other>>

NextPure == pureWrite \/ pureItoa

SpecPure == Init /\ [][NextPure]_vars

(* ======================= properties of the logger ====================== *)
\* Severity of a level name under ERROR > WARN > INFO > DEBUG > TRACE.
Severity == [ERROR |-> 5, WARN |-> 4, INFO |-> 3, DEBUG |-> 2, TRACE |-> 1]

\* The name a file gives to a valid level value.
NameOf(v, x) == CHOOSE n \in LevelNames : LevelConst(v, n) = x

AtLeastAsSevere(v, L, T) == Severity[NameOf(v, L)] >= Severity[NameOf(v, T)]

IsOps == {"IsLevel", "IsError", "IsWarn", "IsInfo", "IsDebug", "IsTrace"}

\* The level an operation is about, by name.
OpLevelName(op) ==
    CASE op \in {"IsError", "Error", "Errorf"} -> "ERROR"
      [] op \in {"IsWarn", "Warn", "Warnf"} -> "WARN"
      [] op \in {"IsInfo", "Info", "Infof"} -> "INFO"
      [] op \in {"IsDebug", "Debug", "Debugf"} -> "DEBUG"
      [] op \in {"IsTrace", "Trace", "Tracef"} -> "TRACE"

\* positions at which a thread holds (or must hold) l.mu
InCritical == {"acc", "reset", "header", "body", "out", "inWrite", "unlock"}

\* C1: in both files, for valid level L and valid threshold T, IsLevel(L)
\* is true exactly when L is at least as severe as T, and IsError .. IsTrace
\* answer as IsLevel of their own level.
C1_IsLevelIffSevere ==
    \A t \in Threads :
        (pc[t] = "ret" /\ cur[t].op \in IsOps /\ cur[t].seen[1] \in ValidLevels(src)) =>
            IF cur[t].op = "IsLevel"
            THEN cur[t].x \in ValidLevels(src) =>
                    cur[t].ret = <<AtLeastAsSevere(src, cur[t].x, cur[t].seen[1])>>
            ELSE cur[t].ret =
                    <<Severity[OpLevelName(cur[t].op)] >= Severity[NameOf(src, cur[t].seen[1])]>>

\* C1 witness: one IsLevel call answered true for a strictly more severe
\* level while an Is<Level> call was answered false.
C1_Witness ==
    \E t1, t2 \in Threads :
        /\ pc[t1] = "ret" /\ cur[t1].op = "IsLevel" /\ cur[t1].ret = <<TRUE>>
        /\ cur[t1].x \in ValidLevels(src) /\ cur[t1].seen[1] \in ValidLevels(src)
        /\ cur[t1].x # cur[t1].seen[1]
        /\ pc[t2] = "ret" /\ cur[t2].op \in IsOps \ {"IsLevel"} /\ cur[t2].ret = <<FALSE>>
        /\ cur[t2].seen[1] \in ValidLevels(src)

\* C2: a Warn/Info/Debug/Trace (or ...f) call whose level the threshold it
\* read does not enable never took the mutex, never ran a buffer step and
\* made no sink Write; an enabled one made exactly one sink Write.
C2_GateSkipsOrWritesOnce ==
    \A t \in Threads :
        (pc[t] = "ret" /\ cur[t].op \in GatedOps /\ cur[t].seen[1] \in ValidLevels(src)) =>
            IF Severity[OpLevelName(cur[t].op)] >= Severity[NameOf(src, cur[t].seen[1])]
            THEN cur[t].nw = 1 /\ Len(cur[t].wbytes) = 1
            ELSE /\ cur[t].nw = 0
                 /\ cur[t].atLock = <<>>
                 /\ cur[t].clock = <<>>
                 /\ cur[t].wbytes = <<>>

\* C2 witness: one gated call returned without writing while another one
\* returned after its single write.
C2_Witness ==
    \E t1, t2 \in Threads :
        /\ pc[t1] = "ret" /\ cur[t1].op \in GatedOps /\ cur[t1].nw = 0
        /\ cur[t1].seen[1] \in ValidLevels(src)
        /\ pc[t2] = "ret" /\ cur[t2].op \in GatedOps /\ cur[t2].nw = 1
        /\ cur[t2].seen[1] \in ValidLevels(src)

\* all the sink Write calls made so far
TotalWrites == wcount["w1"] + wcount["w2"]

\* write invocations that have started but not yet made their Write call
PendingWrites ==
    Cardinality({t \in Threads : /\ cur[t].op \notin AccessorOps
                                 /\ pc[t] \in {"lock", "reset", "header", "body", "out"}})

\* C3: with any threads emitting concurrently, each write invocation makes
\* exactly one sink Write, the bytes it passes are the header, body and
\* newline of that invocation alone, the buffer is only worked on under
\* the mutex, and the number of sink writes is the number of invocations.
C3_OneWholeLinePerWrite ==
    /\ \A t \in Threads :
          /\ pc[t] \in InCritical => mu = t
          /\ (cur[t].op \notin AccessorOps /\ pc[t] \in {"inWrite", "unlock", "ret", "exit"}
              /\ cur[t].atLock # <<>>) =>
                /\ cur[t].nw = 1
                /\ cur[t].wbytes =
                     <<writeBuf(src, <<>>, cur[t].lvl, flags, cur[t].clock[1], cur[t].m)>>
    /\ TotalWrites + PendingWrites = winv

\* C3 witness: a thread's Write call is in flight after another thread's
\* write of a different line has returned.
C3_Witness ==
    \E t1, t2 \in Threads :
        /\ pc[t1] = "ret" /\ cur[t1].nw = 1
        /\ pc[t2] = "inWrite" /\ cur[t2].nw = 1
        /\ cur[t1].wbytes # cur[t2].wbytes
        /\ TotalWrites = 2

\* C4 (as claimed): every Error / Errorf call writes its line and then
\* ends the process; none returns to its caller.
C4_ErrorAlwaysExits ==
    \A t \in Threads :
        cur[t].op \in ExitOps => (pc[t] # "ret" /\ (pc[t] = "exit" => cur[t].nw = 1))

\* C5 (as claimed): in the clamping file the stored threshold is always
\* one of the five valid levels.
C5_ThresholdAlwaysValid == src = "part_000" => level \in ValidLevels(src)

\* what Level() is to return after SetLevel(x)
RoundTrip(v, x) ==
    IF v = "log.go" THEN x
    ELSE IF x < 0 THEN LevelConst(v, "ERROR")
         ELSE IF x > 4 THEN LevelConst(v, "TRACE")
         ELSE x

\* C6: Level() after SetLevel(x) returns x clamped to LevelError..LevelTrace
\* in part_000 and x itself in log.go; SetLevel leaves sink and flags alone.
C6_SetLevelRoundTrip ==
    \A t \in Threads :
        /\ (pc[t] = "unlock" /\ cur[t].op = "Level" /\ lastSet # <<>>) =>
              cur[t].ret = <<RoundTrip(src, lastSet[1])>>
        /\ (pc[t] = "unlock" /\ cur[t].op = "SetLevel") =>
              /\ level = RoundTrip(src, cur[t].x)
              /\ level = RoundTrip(src, level)
              /\ out = cur[t].atLock[1].out
              /\ flags = cur[t].atLock[1].flags

\* C6 witness: in part_000, Level() answers LevelTrace after a SetLevel
\* above the valid range.
C6_Witness ==
    \E t \in Threads :
        /\ src = "part_000" /\ pc[t] = "unlock" /\ cur[t].op = "Level"
        /\ lastSet # <<>> /\ lastSet[1] > LevelTrace /\ cur[t].ret = <<LevelTrace>>

\* C7: write / writef return the sink's error as it is, after exactly one
\* Write attempt, with the mutex released and threshold, sink and flags as
\* they were; Warn/Info/Debug/Trace hand nothing back.
C7_WriteReturnsSinkError ==
    \A t \in Threads :
        /\ (pc[t] = "ret" /\ cur[t].op \in WriteOps) =>
              /\ cur[t].ret = <<cur[t].err>>
              /\ cur[t].nw = 1
              /\ mu # t
        /\ (pc[t] = "unlock" /\ cur[t].op \in WriteOps) =>
              /\ cur[t].nw = 1
              /\ level = cur[t].atLock[1].level
              /\ out = cur[t].atLock[1].out
              /\ flags = cur[t].atLock[1].flags
        /\ (pc[t] = "ret" /\ cur[t].op \in GatedOps) => cur[t].ret = <<>>

\* C7 witness: a write has returned the sink's error to its caller and the
\* next write on the same logger has reached the sink.
C7_Witness ==
    \E t1, t2 \in Threads :
        /\ pc[t1] = "ret" /\ cur[t1].op \in WriteOps /\ cur[t1].ret = <<"EIO">>
        /\ pc[t2] = "inWrite" /\ cur[t2].op \in WriteOps /\ cur[t2].nw = 1

\* C8: the accessors and write run under the one mutex, so a write's line
\* goes to the sink the logger held when the write took the mutex, which
\* is still the logger's sink when the Write call is made and returns.
C8_WriteGoesToCurrentSink ==
    \A t \in Threads :
        /\ pc[t] \in InCritical =>
              /\ mu = t
              /\ (pc[t] = "unlock" /\ cur[t].op = "SetOutput") \/ out = cur[t].atLock[1].out
        /\ (pc[t] \in {"inWrite", "unlock"} /\ cur[t].op \notin AccessorOps) =>
              cur[t].wto = <<out>>

\* C8 witness: after SetOutput("w2") has returned, a write is delivering
\* its line to w2.
C8_Witness ==
    \E t1, t2 \in Threads :
        /\ pc[t1] = "ret" /\ cur[t1].op = "SetOutput" /\ cur[t1].w = "w2"
        /\ pc[t2] = "inWrite" /\ cur[t2].wto = <<"w2">>

\* the body-only line: the message, in red only for ERROR with Color on
BodyOnly(name, color, m) ==
    IF color /\ name = "ERROR"
    THEN <<"ESC", "[", "3", "1", "m">> \o Render(m) \o <<"ESC", "[", "0", "m", "LF">>
    ELSE Render(m) \o <<"LF">>

\* C9 (as claimed): with Head off, or with HeadLevel, HeadDate and HeadTime
\* all off, the header is empty and the line is the body and the newline.
C9_NoHeaderWhenAllOff ==
    (pure.f = "write"
     /\ (~pure.fl.Head \/ (~pure.fl.HeadLevel /\ ~pure.fl.HeadDate /\ ~pure.fl.HeadTime))) =>
        /\ pure.header = <<>>
        /\ pure.line = BodyOnly(pure.name, pure.fl.Color, pure.m)

\* the bytes allowed between ESC and the final m of an SGR sequence
SGRInner == {"[", ";", "0", "1", "2", "3", "4", "5", "6", "7", "8", "9"}

\* every ESC opens a complete sequence ESC [ ... m
WholeEscapes(bytes) ==
    \A i \in 1..Len(bytes) :
        bytes[i] = "ESC" =>
            /\ i < Len(bytes) /\ bytes[i + 1] = "["
            /\ \E j \in (i + 2)..Len(bytes) :
                  /\ bytes[j] = "m"
                  /\ \A k \in (i + 1)..(j - 1) : bytes[k] \in SGRInner

\* C10 (as claimed): whenever the header is not empty, the byte dropped
\* before ": " is a space and no escape sequence of the header is cut.
C10_DroppedByteIsSpace ==
    (pure.f = "write" /\ pure.fl.Head /\ pure.header # <<>>) =>
        /\ pure.raw[Len(pure.raw)] = " "
        /\ pure.header = SubSeq(pure.raw, 1, Len(pure.raw) - 1) \o <<":", " ">>
                         \o (IF pure.fl.Color THEN <<"ESC", "[", "0", "m">> ELSE <<>>)
        /\ WholeEscapes(pure.header)

\* n in decimal, filled with zeros on the left up to w digits, never cut
RECURSIVE ZeroPad(_, _)
ZeroPad(digits, w) == IF Len(digits) >= w THEN digits ELSE ZeroPad(<<"0">> \o digits, w)

Padded(n, w) == ZeroPad(Dec(n), w)

\* the uncoloured tag of a level name
PlainTag(name) ==
    CASE name = "ERROR" -> <<"[", "E", "R", "R", "O", "R", "]", " ">>
      [] name = "WARN" -> <<"[", "W", "A", "R", "N", "]", " ", " ">>
      [] name = "INFO" -> <<"[", "I", "N", "F", "O", "]", " ", " ">>
      [] name = "DEBUG" -> <<"[", "D", "E", "B", "U", "G", "]", " ">>
      [] name = "TRACE" -> <<"[", "T", "R", "A", "C", "E", "]", " ">>

\* the parts of an uncoloured header in their order: tag, date, time
PlainParts(name, fl, now) ==
    (IF fl.HeadLevel THEN PlainTag(name) ELSE <<>>)
    \o (IF fl.HeadDate
        THEN Padded(now.day, 2) \o <<".">> \o Padded(now.month, 2) \o <<".">>
             \o Padded(now.year, 4) \o <<" ">>
        ELSE <<>>)
    \o (IF fl.HeadTime
        THEN Padded(now.hour, 2) \o <<":">> \o Padded(now.min, 2) \o <<":">>
             \o Padded(now.sec, 2)
             \o (IF fl.HeadMC THEN <<".">> \o Padded(now.nsec \div 1000, 6) ELSE <<>>)
             \o <<" ">>
        ELSE <<>>)

\* the uncoloured header: the parts with their last space turned into ": "
PlainHeader(name, fl, now) ==
    LET parts == PlainParts(name, fl, now)
    IN IF parts = <<>> THEN <<>>
       ELSE SubSeq(parts, 1, Len(parts) - 1) \o <<":", " ">>

TwinA == [f |-> FALSE, format |-> <<>>, v |-> <<StrVal(<<"n", "=">>), IntVal(7)>>]
TwinB == [f |-> FALSE, format |-> <<>>, v |-> <<StrVal(<<"b">>), StrVal(<<"!">>)>>]

\* a plain message that renders to the same text as the formatted one
PlainTwin(m) == CHOOSE p \in {TwinA, TwinB} : Sprint(p.v) = Sprintf(m.format, m.v)

\* the plain method a formatted method corresponds to
PlainOp(op) ==
    CASE op = "writef" -> "write"
      [] op = "Errorf" -> "Error"
      [] op = "Warnf" -> "Warn"
      [] op = "Infof" -> "Info"
      [] op = "Debugf" -> "Debug"
      [] op = "Tracef" -> "Trace"

\* C12: in part_000 a writef call works on the buffer only under the mutex,
\* makes exactly one sink Write, passes exactly the bytes write builds for
\* a plain message that renders to the same text (same reset, header, red
\* wrapping for ERROR under Color, one newline), and hands back what write
\* hands back; Warnf/Infof/Debugf/Tracef go on to writef exactly when the
\* gate of Warn/Info/Debug/Trace lets the call through, and Errorf, like
\* Error, always does.
C12_WritefAsWrite ==
    \A t \in Threads :
        cur[t].op \in FormatOps =>
            /\ src = "part_000"
            /\ pc[t] \in InCritical => mu = t
            /\ (pc[t] \in {"inWrite", "unlock", "ret", "exit"} /\ cur[t].atLock # <<>>) =>
                  /\ cur[t].nw = 1
                  /\ Sprint(PlainTwin(cur[t].m).v) = Sprintf(cur[t].m.format, cur[t].m.v)
                  /\ cur[t].wbytes = <<writeBuf(src, <<>>, cur[t].lvl, flags, cur[t].clock[1],
                                                PlainTwin(cur[t].m))>>
            /\ (pc[t] \in {"ret", "exit"} /\ cur[t].atLock # <<>>) =>
                  cur[t].ret = returned(PlainOp(cur[t].op),  cur[t].err)
            /\ cur[t].op \in GatedOps =>
                  IF emitGate(src, cur[t].seen[1], cur[t].lvl)
                  THEN pc[t] = "ret" => cur[t].nw = 1
                  ELSE pc[t] = "ret" /\ cur[t].nw = 0 /\ cur[t].atLock = <<>>
            /\ cur[t].op = "Errorf" =>
                  /\ errorGate(src, cur[t].seen[1])
                  /\ pc[t] # "ret"
                  /\ pc[t] = "exit" => cur[t].nw = 1

\* C12 witness: a direct writef of an ERROR line has returned and a gated
\* formatted call that followed it on the same buffer has written its line.
C12_Witness ==
    \E t1, t2 \in Threads :
        /\ pc[t1] = "ret" /\ cur[t1].op = "writef" /\ cur[t1].nw = 1
        /\ pc[t2] = "unlock" /\ cur[t2].op \in FormatOps \cap GatedOps /\ cur[t2].nw = 1
        /\ flags.Color

\* C13 (as claimed): whenever a line of Warn/Info/Debug/Trace (or a ...f
\* variant) is handed to the sink, its level is enabled by the threshold
\* the logger holds at that moment (no SetLevel can run between the call
\* taking the mutex and its Write returning).
C13_GateConsistentWithWrite ==
    \A t \in Threads :
        (cur[t].op \in GatedOps /\ pc[t] = "inWrite") =>
            isLevelValue(src, level, cur[t].lvl)

\* number of decimal digits of a non-negative integer
RECURSIVE NumDigits(_)
NumDigits(n) == IF n < 10 THEN 1 ELSE 1 + NumDigits(n \div 10)

\* the digit a byte stands for, -1 for any other byte
DigitOf(c) == IF \E d \in 0..9 : DigitChars[d + 1] = c
              THEN CHOOSE d \in 0..9 : DigitChars[d + 1] = c
              ELSE 0 - 1

\* the number a string of digit bytes reads as
RECURSIVE DecValue(_)
DecValue(digits) ==
    IF Len(digits) = 0 THEN 0
    ELSE DecValue(SubSeq(digits, 1, Len(digits) - 1)) * 10 + DigitOf(digits[Len(digits)])

\* C14: itoa(buf, i, wid) leaves the bytes of buf in place and appends
\* max(wid, digits of i) digit bytes that read as i (so zeros fill the
\* left and nothing is cut); every index it uses lies in its 20-byte
\* array; (7,2) gives "07", (12345,4) "12345", (10000,4) "10000", (0,2) "00".
C14_ItoaPadsNeverCuts ==
    pure.f = "itoa" =>
        LET n == IF pure.wid > NumDigits(pure.i) THEN pure.wid ELSE NumDigits(pure.i)
            added == SubSeq(pure.out, Len(pure.old) + 1, Len(pure.out))
        IN /\ Len(pure.out) = Len(pure.old) + n
           /\ SubSeq(pure.out, 1, Len(pure.old)) = pure.old
           /\ \A k \in 1..Len(added) : DigitOf(added[k]) >= 0
           /\ DecValue(added) = pure.i
           /\ pure.bp >= 0 /\ pure.bp <= 20 - 1 /\ pure.bp = 20 - n
           /\ (pure.i = 7 /\ pure.wid = 2) => added = <<"0", "7">>
           /\ (pure.i = 12345 /\ pure.wid = 4) => added = <<"1", "2", "3", "4", "5">>
           /\ (pure.i = 10000 /\ pure.wid = 4) => added = <<"1", "0", "0", "0", "0">>
           /\ (pure.i = 0 /\ pure.wid = 2) => added = <<"0", "0">>

\* C14 witness: itoa has appended 10000 with width 4 to a buffer that
\* already held bytes.
C14_Witness ==
    /\ pure.f = "itoa" /\ pure.i = 10000 /\ pure.wid = 4
    /\ pure.old = <<"o", "l", "d", " ">>
    /\ Len(pure.out) = 9

\* no thread that is outside a call, or back from one, holds the mutex,
\* and a thread working under the mutex is its one holder
MutexHeldOnlyInside ==
    \A t \in Threads :
        /\ pc[t] \in {"idle", "lock", "ret", "exit"} => mu # t
        /\ pc[t] \in InCritical => mu = t

\* while thread t stays inside the sink's Write, no other thread's call
\* that takes the mutex of this logger gets it or completes
BlockedWhileInWrite ==
    \A t \in Threads :
        (pc[t] = "inWrite" /\ pc'[t] = "inWrite") =>
            \A t2 \in Threads \ {t} :
                /\ pc'[t2] \in InCritical => pc[t2] \in InCritical
                /\ (pc'[t2] \in {"ret", "exit"} /\ pc[t2] \notin {"ret", "exit"}) =>
                      cur'[t2].atLock = <<>>

\* every sink Write that is called returns
SinkWritesReturn == \A t \in Threads : []<>(pc[t] # "inWrite")

\* C15: the mutex is held by one call at a time and by none that has
\* returned; while a Write of the sink has not returned no other call
\* that needs the mutex completes; if every Write returns, every call
\* comes back to its caller (or the process is ended by Error's os.Exit);
\* and a call on a second Logger instance completes whether or not the
\* first logger's sink ever returns.
C15_NoLeakNoDeadlock ==
    /\ []MutexHeldOnlyInside
    /\ [][BlockedWhileInWrite]_vars
    /\ SinkWritesReturn =>
          \A t \in Threads : (pc[t] # "idle") ~> (pc[t] \in {"idle", "ret"} \/ exited)
    /\ (other.pc = "lock") ~> (other.pc = "done" \/ exited)

\* C15 witness: a write that got an error from the sink has returned with
\* the mutex released, the next write is inside its sink Write, and the
\* SetLevel call on the second instance is complete.
C15_Witness ==
    \E t1, t2 \in Threads :
        /\ pc[t1] = "ret" /\ cur[t1].op = "write" /\ cur[t1].err = "EIO"
        /\ pc[t2] = "inWrite" /\ mu = t2
        /\ other.pc = "done" /\ other.mu = 0

====
